---- MODULE Spec2Model ----
(***************************************************************************)
(* Model of lire_donnees_excel.py: reading of the .ini parameters, the     *)
(* collection of the dated extracts of every station (lire_fichiers_excel),*)
(* their reconciliation (aggreger_donnees) and the export                  *)
(* (ecrire_donnees_traitees), chained as in main().                        *)
(*                                                                         *)
(* A table (pandas DataFrame) is a record [nom, lignes]: nom is the name   *)
(* of its index, lignes maps each timestamp of the index to a row, a row   *)
(* maps each column to a value or to NA.  The index of a table is a set of *)
(* distinct timestamps (pivot() rejects repeated ones; sheets with         *)
(* repeated timestamps are outside the inputs enumerated here).            *)
(* Python objects that are shared are modelled by an alias mark: an object *)
(* [t, alias] is the table t, and alias is the key of the ledger entry     *)
(* that is the very same object (0: an object of its own).                 *)
(***************************************************************************)
EXTENDS Integers, Sequences, FiniteSets, TLC

VARIABLES config, liste_fic, params, pc, err, n, tab_data, diag, resultat, ecrits

vars == <<config, liste_fic, params, pc, err, n, tab_data, diag, resultat, ecrits>>

\* ---------------------------------------------------------------- bounds
MaxFiles == 3
MaxDate == 3
MaxVal == 2
MaxCells == 5
MaxFileCells == 2

\* ---------------------------------------------------------------- values
NA == 0
Dates == 1..MaxDate
Valeurs == 1..MaxVal
Vide == [x \in {} |-> 0]
Formats == {"SALLELES", "POSTE_CENTRAL"}
EnTeteSalleles == "horodate"

Max(S) == CHOOSE x \in S : \A y \in S : y <= x
Min(S) == CHOOSE x \in S : \A y \in S : x <= y
Range(s) == {s[i] : i \in 1..Len(s)}

RECURSIVE sorted(_)
sorted(S) == IF S = {} THEN <<>> ELSE <<Min(S)>> \o sorted(S \ {Min(S)})

\* ----------------------------------------------------------- get_params
\* A line of col_params is a sequence of tokens; ":" is the separator.
RECURSIVE split(_)
split(ligne) ==
    IF \A i \in 1..Len(ligne) : ligne[i] # ":" THEN <<ligne>>
    ELSE LET i == Min({j \in 1..Len(ligne) : ligne[j] = ":"})
         IN  <<SubSeq(ligne, 1, i - 1)>> \o split(SubSeq(ligne, i + 1, Len(ligne)))

\* k,v = ligne.split(':') raises ValueError unless there are exactly two parts
LigneValide(ligne) == Len(split(ligne)) = 2

RECURSIVE _extraire_col_params(_)
_extraire_col_params(lignes) ==
    IF lignes = <<>> THEN Vide
    ELSE LET fin == Len(lignes)
             resultat0 == _extraire_col_params(SubSeq(lignes, 1, fin - 1))
             k == split(lignes[fin])[1][1]
             v == split(lignes[fin])[2][1]
         IN  IF k \in DOMAIN resultat0
             THEN [resultat0 EXCEPT ![k] = Append(@, v)]
             ELSE resultat0 @@ (k :> <<v>>)

\* config.get raises when the option or the section is absent
ConfigLisible(c) ==
    /\ "FORMAT_DONNEES" \in c.cles
    /\ "FICHIERS_INPUT" \in c.cles
    /\ "RESULTATS" \in c.cles
    /\ c.section
    /\ \A i \in 1..Len(c.col_params) : LigneValide(c.col_params[i])

GetParams ==
    /\ pc = "config"
    /\ IF ConfigLisible(config)
       THEN /\ params' = [FORMAT_DONNEES |-> config.format,
                          dico |-> _extraire_col_params(config.col_params)]
            /\ pc' = "lecture"
            /\ err' = err
       ELSE /\ params' = params
            /\ pc' = "erreur"
            /\ err' = "config"
    /\ UNCHANGED <<config, liste_fic, n, tab_data, diag, resultat, ecrits>>

\* -------------------------------------------------------------- readers
Colonnes(dico, s) == Range(dico[s])
ToutesColonnes(dico) == UNION {Colonnes(dico, s) : s \in DOMAIN dico}

\* pd.read_excel(sheet) [cols] .sort_index(); last_date = index[-1]
lire_fic_salleles(fic, dico_param) ==
    [onglet \in DOMAIN dico_param |->
        LET data_lue == [nom |-> EnTeteSalleles,
                         lignes |-> [t \in DOMAIN fic.feuilles[onglet] |->
                                       [c \in Colonnes(dico_param, onglet) |->
                                           fic.feuilles[onglet][t][c]]]]
            last_date == Max(DOMAIN data_lue.lignes)
        IN  (last_date :> data_lue)]

\* mutant: a station whose slice holds no value at all is left out of the result
lire_fic_poste_central_sans_vides(fic, dico_param) ==
    LET chronique_lue == fic.data
        last_date == Max(DOMAIN chronique_lue)
        gardees == {station \in DOMAIN dico_param :
                      \E t \in DOMAIN chronique_lue : \E c \in Colonnes(dico_param, station) :
                          chronique_lue[t][c] # NA}
    IN  [station \in gardees |->
            (last_date :> [nom |-> "date",
                           lignes |-> [t \in DOMAIN chronique_lue |->
                                         [c \in Colonnes(dico_param, station) |->
                                             chronique_lue[t][c]]]])]

\* pivot(index='date', columns='rank'); last_date = index[-1]; column slices
lire_fic_poste_central(fic, dico_param) ==
    [station \in DOMAIN dico_param |->
        LET chronique_lue == fic.data
            last_date == Max(DOMAIN chronique_lue)
        IN  (last_date :> [nom |-> "date",
                           lignes |-> [t \in DOMAIN chronique_lue |->
                                         [c \in Colonnes(dico_param, station) |->
                                             chronique_lue[t][c]]]])]

\* if format_donnees == 'SALLELES' ... elif format_donnees == 'POSTE_CENTRAL'
LireFic(fic, dico_param, format_donnees) ==
    IF format_donnees = "SALLELES" THEN lire_fic_salleles(fic, dico_param)
    ELSE lire_fic_poste_central(fic, dico_param)

\* ------------------------------------------------------------ collector
\* mutant: the later extract replaces the one recorded under the same date
InsererExtraitEcrase(data_station, extraits) ==
    [d \in DOMAIN data_station \cup DOMAIN extraits |->
        IF d \in DOMAIN extraits THEN extraits[d] ELSE data_station[d]]

\* if last_date in data_station: print, continue; else insert
InsererExtrait(data_station, extraits) ==
    [d \in DOMAIN data_station \cup DOMAIN extraits |->
        IF d \in DOMAIN data_station THEN data_station[d] ELSE extraits[d]]

\* the (station, date) pairs of a workbook that the ledger already holds
Doublons(tab, dico_data) ==
    {<<s, d>> \in (DOMAIN dico_data) \X Dates :
        /\ d \in DOMAIN dico_data[s]
        /\ s \in DOMAIN tab
        /\ d \in DOMAIN tab[s]}

\* mutant: a workbook with one duplicate is left out for every station
CollecterFichierEntier(tab, dico_data) ==
    IF Doublons(tab, dico_data) # {} THEN tab
    ELSE [s \in DOMAIN tab \cup DOMAIN dico_data |->
            IF s \in DOMAIN dico_data
            THEN InsererExtrait(IF s \in DOMAIN tab THEN tab[s] ELSE Vide, dico_data[s])
            ELSE tab[s]]

\* for nom_station in dico_data: create the station's ledger if new, insert
CollecterFichier(tab, dico_data) ==
    [s \in DOMAIN tab \cup DOMAIN dico_data |->
        IF s \in DOMAIN dico_data
        THEN InsererExtrait(IF s \in DOMAIN tab THEN tab[s] ELSE Vide, dico_data[s])
        ELSE tab[s]]

\* the number of cells of a table, of a workbook, of a list of workbooks
CellulesTable(l) ==
    IF DOMAIN l = {} THEN 0
    ELSE Cardinality(DOMAIN l) * Cardinality(DOMAIN l[Min(DOMAIN l)])

RECURSIVE CellulesFeuilles(_, _)
CellulesFeuilles(feuilles, S) ==
    IF S = {} THEN 0
    ELSE LET s == CHOOSE x \in S : TRUE
         IN  CellulesTable(feuilles[s]) + CellulesFeuilles(feuilles, S \ {s})

NbCellules(fic) ==
    CellulesFeuilles(fic.feuilles, DOMAIN fic.feuilles) + CellulesTable(fic.data)

\* a workbook the reader raises on (missing sheet or column, empty sheet)
FichierIllisible == [ok |-> FALSE, feuilles |-> Vide, data |-> Vide]

\* The workbooks the glob may list: one sheet per station (SALLELES) or one
\* pivoted DATA sheet (POSTE_CENTRAL), of at most budget cells; or unreadable.
FichiersSalleles(dico, budget) ==
    UNION {
        LET cellules == {<<s, t, c>> \in (DOMAIN dico) \X Dates \X ToutesColonnes(dico) :
                            t \in idx[s] /\ c \in Colonnes(dico, s)}
        IN  IF Cardinality(cellules) > budget THEN {}
            ELSE {[ok |-> TRUE,
                   feuilles |-> [s \in DOMAIN dico |->
                                  [t \in idx[s] |->
                                    [c \in Colonnes(dico, s) |-> v[<<s, t, c>>]]]],
                   data |-> Vide] : v \in [cellules -> Valeurs \cup {NA}]}
        : idx \in [DOMAIN dico -> (SUBSET Dates) \ {{}}]}

FichiersPosteCentral(dico, budget) ==
    UNION {
        LET cellules == idx \X ToutesColonnes(dico)
        IN  IF Cardinality(cellules) > budget THEN {}
            ELSE {[ok |-> TRUE,
                   feuilles |-> Vide,
                   data |-> [t \in idx |->
                              [c \in ToutesColonnes(dico) |-> v[<<t, c>>]]]]
                  : v \in [cellules -> Valeurs \cup {NA}]}
        : idx \in (SUBSET Dates) \ {{}}}

Fichiers(dico, format, budget) ==
    {FichierIllisible} \cup
    (IF format = "SALLELES" THEN FichiersSalleles(dico, budget)
     ELSE FichiersPosteCentral(dico, budget))

RECURSIVE CellulesListe(_)
CellulesListe(fics) ==
    IF fics = <<>> THEN 0
    ELSE NbCellules(fics[Len(fics)]) + CellulesListe(SubSeq(fics, 1, Len(fics) - 1))

\* the lists glob.glob may return: at most MaxFiles workbooks of at most
\* MaxFileCells cells, MaxCells cells in all
Listes(dico, format) ==
    LET F == Fichiers(dico, format, MaxFileCells)
    IN  UNION {{l \in [1..k -> F] : CellulesListe(l) <= MaxCells} : k \in 0..MaxFiles}

\* mutant: the reader's exception is swallowed and the loop goes on
ApresEchecLectureIgnore == "lecture"

\* what the run becomes when the reader raises on a file: nothing catches it
ApresEchecLecture == "erreur"

\* mutant: the collection returns at the first duplicate
ApresDoublonRetour == "aggreger"

\* what the loop does after the duplicate warning: continue
ApresDoublon == "lecture"

\* one turn of the loop "for fic in liste_fic"
LireFichier ==
    /\ pc = "lecture"
    /\ n < Len(liste_fic)
    /\ n' = n + 1
    /\ LET fic == liste_fic[n + 1]
       IN  IF params.FORMAT_DONNEES \notin Formats
           THEN \* neither branch binds dico_data: NameError at "for nom_station in dico_data"
                /\ pc' = "erreur"
                /\ err' = "format"
                /\ UNCHANGED <<tab_data, diag>>
           ELSE IF ~fic.ok
           THEN /\ pc' = ApresEchecLecture
                /\ err' = "lecture"
                /\ UNCHANGED <<tab_data, diag>>
           ELSE LET dico_data == LireFic(fic, params.dico, params.FORMAT_DONNEES)
                    doublons == Doublons(tab_data, dico_data)
                IN  /\ tab_data' = CollecterFichier(tab_data, dico_data)
                    /\ diag' = diag \cup {[fic |-> n + 1, date |-> sd[2]] : sd \in doublons}
                    /\ pc' = IF doublons # {} THEN ApresDoublon ELSE pc
                    /\ err' = err
    /\ UNCHANGED <<config, liste_fic, params, resultat, ecrits>>

\* the list is exhausted: return tab_data
FinLecture ==
    /\ pc = "lecture"
    /\ n = Len(liste_fic)
    /\ pc' = "aggreger"
    /\ UNCHANGED <<config, liste_fic, params, err, n, tab_data, diag, resultat, ecrits>>

\* ------------------------------------------------------ aggreger_donnees
Index(t) == DOMAIN t.lignes
NomUnion(a, b) == IF a = b THEN a ELSE ""

\* mutant: the accumulator is reindexed on the incoming extract's index alone
NewIndexEntrant(acc, data_station) == Index(data_station)

\* resultat[nom_station].index.union(data_station.index)
NewIndex(acc, data_station) == Index(acc) \cup Index(data_station)

\* mutant: the rows are added to the accumulator object itself
ReindexEnPlace(obj, new_index, nom) ==
    [t |-> [nom |-> nom,
            lignes |-> [d \in new_index |->
                          IF d \in Index(obj.t) THEN obj.t.lignes[d]
                          ELSE [c \in DOMAIN obj.t.lignes[Min(Index(obj.t))] |-> NA]]],
     alias |-> obj.alias]

\* DataFrame.reindex(index=new_index): a new object, NA where the row is new
Reindex(obj, new_index, nom) ==
    [t |-> [nom |-> nom,
            lignes |-> [d \in new_index |->
                          IF d \in Index(obj.t) THEN obj.t.lignes[d]
                          ELSE [c \in DOMAIN obj.t.lignes[Min(Index(obj.t))] |-> NA]]],
     alias |-> 0]

\* mutant: update(overwrite=False), only the NA cells of the caller are filled
UpdateSansEcraser(acc, other) ==
    [acc EXCEPT !.lignes =
        [d \in Index(acc) |->
            [c \in DOMAIN acc.lignes[d] |->
                IF acc.lignes[d][c] = NA /\ d \in Index(other) /\ c \in DOMAIN other.lignes[d]
                THEN other.lignes[d][c] ELSE acc.lignes[d][c]]]]

\* mutant: the rows of other are assigned whole, NA cells included
UpdateAvecNA(acc, other) ==
    [acc EXCEPT !.lignes =
        [d \in Index(acc) |->
            [c \in DOMAIN acc.lignes[d] |->
                IF d \in Index(other) /\ c \in DOMAIN other.lignes[d]
                THEN other.lignes[d][c] ELSE acc.lignes[d][c]]]]

\* DataFrame.update(other): other is aligned on the caller's index, then, in
\* place, only the non-NA cells of other overwrite (mask = isna(that))
Update(acc, other) ==
    LET that == [d \in Index(acc) |->
                   [c \in DOMAIN acc.lignes[d] |->
                       IF d \in Index(other) /\ c \in DOMAIN other.lignes[d]
                       THEN other.lignes[d][c] ELSE NA]]
    IN  [acc EXCEPT !.lignes =
            [d \in Index(acc) |->
                [c \in DOMAIN acc.lignes[d] |->
                    IF that[d][c] = NA THEN acc.lignes[d][c] ELSE that[d][c]]]]

\* the body of "for derniere_date in list_dernieres_dates" for one station;
\* st = [present, obj, reg]: reg is the station's ledger as the heap holds it
EtapeAggreger(st, derniere_date) ==
    LET data_station == st.reg[derniere_date]
    IN  IF st.present
        THEN LET new_index == NewIndex(st.obj.t, data_station)
                 r1 == Reindex(st.obj, new_index, NomUnion(st.obj.t.nom, data_station.nom))
                 r2 == [r1 EXCEPT !.t = Update(r1.t, data_station)]
             IN  [present |-> TRUE,
                  obj |-> r2,
                  reg |-> IF r2.alias # 0 THEN [st.reg EXCEPT ![r2.alias] = r2.t]
                          ELSE st.reg]
        ELSE [present |-> TRUE,
              obj |-> [t |-> data_station, alias |-> derniere_date],
              reg |-> st.reg]

RECURSIVE PlierDates(_, _)
PlierDates(st, dates) ==
    IF dates = <<>> THEN st
    ELSE PlierDates(EtapeAggreger(st, Head(dates)), Tail(dates))

OrdreDates(data) == sorted(DOMAIN data)

AggregerStation(data) ==
    PlierDates([present |-> FALSE, obj |-> [t |-> Vide, alias |-> 0], reg |-> data],
               OrdreDates(data))

Aggreger ==
    /\ pc = "aggreger"
    /\ resultat' = [s \in DOMAIN tab_data |-> AggregerStation(tab_data[s]).obj]
    /\ tab_data' = [s \in DOMAIN tab_data |-> AggregerStation(tab_data[s]).reg]
    /\ pc' = "ecrire"
    /\ UNCHANGED <<config, liste_fic, params, err, n, diag, ecrits>>

\* ----------------------------------------------- ecrire_donnees_traitees
\* df.index.name = 'date' (on the object itself), then df.to_csv
Ecrire ==
    /\ pc = "ecrire"
    /\ resultat' = [s \in DOMAIN resultat |-> [resultat[s] EXCEPT !.t.nom = "date"]]
    /\ tab_data' = [s \in DOMAIN tab_data |->
                      IF resultat[s].alias # 0
                      THEN [tab_data[s] EXCEPT ![resultat[s].alias].nom = "date"]
                      ELSE tab_data[s]]
    /\ ecrits' = DOMAIN resultat
    /\ pc' = "fin"
    /\ UNCHANGED <<config, liste_fic, params, err, n, diag>>

\* ------------------------------------------------------------------ main
LA == <<"A", ":", "x">>
LB == <<"B", ":", "y">>
LA2 == <<"A", ":", "z">>
LSans == <<"A", "x">>
LDeux == <<"A", ":", "x", ":", "y">>

Configs ==
    [cles : SUBSET {"FORMAT_DONNEES", "FICHIERS_INPUT", "RESULTATS"},
     format : Formats \cup {"AUTRE"},
     section : BOOLEAN,
     col_params : {<<LA>>, <<LA, LB>>, <<LA, LA2>>, <<LSans>>, <<LA, LSans>>, <<LDeux>>}]

\* the file lists a configuration can meet; the workbooks of a run that
\* never reads one are left opaque
ListesPour(c) ==
    IF ConfigLisible(c) /\ c.format \in Formats
    THEN Listes(_extraire_col_params(c.col_params), c.format)
    ELSE {<<>>, <<FichierIllisible>>}

Init ==
    /\ config \in Configs
    /\ liste_fic \in ListesPour(config)
    /\ params = Vide
    /\ pc = "config"
    /\ err = ""
    /\ n = 0
    /\ tab_data = Vide
    /\ diag = {}
    /\ resultat = Vide
    /\ ecrits = {}

Next == GetParams \/ LireFichier \/ FinLecture \/ Aggreger \/ Ecrire

Spec == Init /\ [][Next]_vars

\* ===================================================== properties checked
FormatConnu == pc # "config" /\ params # Vide /\ params.FORMAT_DONNEES \in Formats
Stations == DOMAIN params.dico
Agrege == pc \in {"ecrire", "fin"}

\* the reader's result for the i-th workbook of the list, and its date for s
Lu(i) == LireFic(liste_fic[i], params.dico, params.FORMAT_DONNEES)
DateDe(i, s) == CHOOSE d \in DOMAIN Lu(i)[s] : TRUE
Lisibles == {i \in 1..n : liste_fic[i].ok}
PremierRang(s, d) == Min({i \in Lisibles : DateDe(i, s) = d})

\* the extracts of s's ledger whose index holds d, and those with a value at (d, c)
Couvrants(s, d) == {v \in DOMAIN tab_data[s] : d \in Index(tab_data[s][v])}
Presents(s, d, c) == {v \in Couvrants(s, d) : tab_data[s][v].lignes[d][c] # NA}
Cellules(s) ==
    {dc \in Dates \X Colonnes(params.dico, s) : Couvrants(s, dc[1]) # {}}

\* C1: where the extract of greatest date among those covering a timestamp
\* holds a value, the reconciled series holds exactly that value.
C1_OverwritePriority ==
    Agrege =>
        \A s \in DOMAIN tab_data : \A dc \in Cellules(s) :
            LET d == dc[1]
                c == dc[2]
                dernier == tab_data[s][Max(Couvrants(s, d))]
            IN  dernier.lignes[d][c] # NA =>
                    /\ d \in Index(resultat[s].t)
                    /\ resultat[s].t.lignes[d][c] = dernier.lignes[d][c]

C1_Witness ==
    /\ Agrege
    /\ \E s \in DOMAIN tab_data : \E dc \in Cellules(s) :
          /\ Cardinality(Presents(s, dc[1], dc[2])) >= 2
          /\ Max(Presents(s, dc[1], dc[2])) = Max(Couvrants(s, dc[1]))
          /\ \E v \in Presents(s, dc[1], dc[2]) :
                tab_data[s][v].lignes[dc[1]][dc[2]]
                    # tab_data[s][Max(Couvrants(s, dc[1]))].lignes[dc[1]][dc[2]]

C3_GapPreservation ==
    Agrege =>
        \A s \in DOMAIN tab_data : \A dc \in Cellules(s) :
            LET d == dc[1]
                c == dc[2]
            IN  (tab_data[s][Max(Couvrants(s, d))].lignes[d][c] = NA
                 /\ Presents(s, d, c) # {}) =>
                    /\ d \in Index(resultat[s].t)
                    /\ resultat[s].t.lignes[d][c]
                          = tab_data[s][Max(Presents(s, d, c))].lignes[d][c]

C3_Witness ==
    /\ Agrege
    /\ \E s \in DOMAIN tab_data : \E dc \in Cellules(s) :
          /\ tab_data[s][Max(Couvrants(s, dc[1]))].lignes[dc[1]][dc[2]] = NA
          /\ Cardinality(Presents(s, dc[1], dc[2])) >= 2
          /\ \E v \in Presents(s, dc[1], dc[2]) :
                tab_data[s][v].lignes[dc[1]][dc[2]]
                    # tab_data[s][Max(Presents(s, dc[1], dc[2]))].lignes[dc[1]][dc[2]]

\* C4: an extract whose date is already recorded for its station leaves the
\* recorded entry as it was (the first workbook seen with that date), a
\* warning naming the workbook and the date is printed, and a timestamp
\* covered by that date alone is reconciled to the first-seen value.
C4_DuplicateRejection ==
    (FormatConnu /\ pc \in {"lecture", "aggreger", "ecrire"}) =>
        /\ \A s \in DOMAIN tab_data : \A d \in DOMAIN tab_data[s] :
              tab_data[s][d] = Lu(PremierRang(s, d))[s][d]
        /\ \A i \in Lisibles : \A s \in Stations :
              PremierRang(s, DateDe(i, s)) < i =>
                  [fic |-> i, date |-> DateDe(i, s)] \in diag
        /\ pc = "ecrire" =>
              \A s \in DOMAIN tab_data : \A dc \in Cellules(s) :
                  \A v \in DOMAIN tab_data[s] :
                      Couvrants(s, dc[1]) = {v} =>
                          resultat[s].t.lignes[dc[1]][dc[2]]
                              = Lu(PremierRang(s, v))[s][v].lignes[dc[1]][dc[2]]

C4_Witness ==
    /\ FormatConnu
    /\ pc = "ecrire"
    /\ \E i \in Lisibles : \E s \in Stations :
          LET d == DateDe(i, s)
          IN  /\ PremierRang(s, d) < i
              /\ Lu(i)[s][d] # Lu(PremierRang(s, d))[s][d]
              /\ \E t \in Dates : Couvrants(s, t) = {d}

\* the ledger a list of readable workbooks yields, read in that order
RECURSIVE CollecterTout(_)
CollecterTout(fics) ==
    IF fics = <<>> THEN Vide
    ELSE CollecterFichier(CollecterTout(SubSeq(fics, 1, Len(fics) - 1)),
                          LireFic(fics[Len(fics)], params.dico, params.FORMAT_DONNEES))

Ordres(k) == {p \in [1..k -> 1..k] : \A i, j \in 1..k : p[i] = p[j] => i = j}

\* the ledger and the series of the run are those of the list read in order p
MemeResultat(p) ==
    LET reg == CollecterTout([i \in 1..Len(liste_fic) |-> liste_fic[p[i]]])
    IN  /\ reg = tab_data
        /\ pc = "ecrire" =>
              \A s \in DOMAIN reg : resultat[s].t = AggregerStation(reg[s]).obj.t

\* every workbook of the list is one the reader accepts
TousLisibles == \A i \in 1..Len(liste_fic) : liste_fic[i].ok

\* no two workbooks give one station the same date with different tables
SansConflit ==
    \A i, j \in 1..Len(liste_fic) : \A s \in Stations :
        DateDe(i, s) = DateDe(j, s) => Lu(i)[s] = Lu(j)[s]

\* C5 as claimed: every permutation of any list of readable workbooks yields
\* the same ledger and the same reconciled series.
C5_OrderIndependence_Original ==
    (FormatConnu /\ pc \in {"aggreger", "ecrire"} /\ TousLisibles) =>
        \A p \in Ordres(Len(liste_fic)) : MemeResultat(p)

\* C5 amended: every permutation of a list of readable workbooks yields the
\* same ledger and the same reconciled series, provided that workbooks giving
\* one station the same date give it the same table.
C5_OrderIndependence ==
    (FormatConnu /\ pc \in {"aggreger", "ecrire"} /\ TousLisibles /\ SansConflit) =>
        \A p \in Ordres(Len(liste_fic)) : MemeResultat(p)

C5_Witness ==
    /\ FormatConnu
    /\ pc = "ecrire"
    /\ SansConflit
    /\ Len(liste_fic) = 3
    /\ diag # {}
    /\ \E s \in DOMAIN tab_data : Cardinality(DOMAIN tab_data[s]) = 2
    /\ \E s \in DOMAIN tab_data : DateDe(1, s) > DateDe(3, s)

\* C6: aggreger_donnees changes no table and no key of the ledger it is
\* given, and reconciling that ledger again yields the same series, whether
\* a station has one extract (the series is then the extract itself) or several.
C6_LedgerUntouched ==
    /\ [][pc = "aggreger" => tab_data' = tab_data]_vars
    /\ [](pc = "ecrire" =>
            \A s \in DOMAIN tab_data : AggregerStation(tab_data[s]).obj = resultat[s])

C6_Witness ==
    /\ pc = "ecrire"
    /\ \E s1 \in DOMAIN tab_data : \E s2 \in DOMAIN tab_data :
          /\ resultat[s1].alias # 0
          /\ Cardinality(DOMAIN tab_data[s2]) >= 2
          /\ resultat[s2].alias = 0

\* C7: once the reader raises on a workbook the run is in error: that
\* workbook is the last one the loop started on, nothing is reconciled and
\* nothing is written; reconciliation and export only follow a list read whole.
C7_ReaderFailureAborts ==
    /\ (FormatConnu /\ \E i \in 1..n : ~liste_fic[i].ok) =>
          /\ pc = "erreur"
          /\ err = "lecture"
          /\ ~liste_fic[n].ok
          /\ \A i \in 1..(n - 1) : liste_fic[i].ok
          /\ resultat = Vide
          /\ ecrits = {}
    /\ (FormatConnu /\ pc \in {"aggreger", "ecrire", "fin"}) =>
          /\ n = Len(liste_fic)
          /\ \A i \in 1..n : liste_fic[i].ok
    /\ ecrits # {} => pc = "fin"

C7_Witness ==
    /\ pc = "erreur"
    /\ err = "lecture"
    /\ n = 2
    /\ Len(liste_fic) = 3
    /\ liste_fic[3].ok
    /\ tab_data # Vide

\* the configurations C8 calls erroneous
SansSeparateur(ligne) == \A i \in 1..Len(ligne) : ligne[i] # ":"
ConfigErronee(c) ==
    \/ c.cles # {"FORMAT_DONNEES", "FICHIERS_INPUT", "RESULTATS"}
    \/ ~c.section
    \/ \E i \in 1..Len(c.col_params) : SansSeparateur(c.col_params[i])
    \/ c.format \notin Formats

\* C8 as claimed: with an erroneous configuration the run never gets to the
\* reconciliation or the export, and the reader is never given a workbook.
C8_ConfigErrorEarly ==
    ConfigErronee(config) =>
        /\ pc \in {"config", "lecture", "erreur"}
        /\ FormatConnu => n = 0

\* C9: a duplicate is dropped for its station only: every readable workbook
\* the loop went through has, for every station, its date recorded in the
\* ledger, with its own table when it is the first with that date; and only
\* a reader failure stops the loop before the end of the list.
C9_DuplicatePerEntity ==
    FormatConnu =>
        /\ \A i \in Lisibles : \A s \in Stations :
              /\ s \in DOMAIN tab_data
              /\ DateDe(i, s) \in DOMAIN tab_data[s]
              /\ PremierRang(s, DateDe(i, s)) = i =>
                    tab_data[s][DateDe(i, s)].lignes = Lu(i)[s][DateDe(i, s)].lignes
        /\ pc = "erreur" => ~liste_fic[n].ok
        /\ pc \in {"aggreger", "ecrire", "fin"} => n = Len(liste_fic)

C9_Witness ==
    /\ FormatConnu
    /\ pc = "lecture"
    /\ \E i \in Lisibles : \E s1 \in Stations : \E s2 \in Stations :
          /\ PremierRang(s1, DateDe(i, s1)) < i
          /\ PremierRang(s2, DateDe(i, s2)) = i
          /\ [fic |-> i, date |-> DateDe(i, s1)] \in diag

\* C10: in the POSTE_CENTRAL format the ledgers of all configured stations
\* hold the same dates after every workbook.
DatesDe(s) == IF s \in DOMAIN tab_data THEN DOMAIN tab_data[s] ELSE {}

====
